---- MODULE Spec2Model ----
(***************************************************************************)
(* Model of App/nutrichatassistant.py: the retrieval-augmented query       *)
(* pipeline get_answer and its helpers build_prompt, llm,                  *)
(* evaluate_relevance and calculate_openai_cost.                           *)
(* The module-level es_client, openai_client and model are assigned once,  *)
(* at import, and only read afterwards: they are no part of the state.     *)
(*                                                                         *)
(* Text is a sequence of atoms.  An atom is one character, or a literal    *)
(* run of a template that starts and ends with a non-whitespace character  *)
(* (so that str.strip treats it like a non-whitespace character), or a     *)
(* replacement field of a template ("{question}").                       *)
(***************************************************************************)
EXTENDS Integers, Sequences, FiniteSets, TLC

(***************************************************************************)
(* Bounds of the model.                                                    *)
(***************************************************************************)
MaxStrLen == 2
MaxRecords == 2
MaxIdLen == 2
MaxTok == 3
MaxHits == 2
MaxElapsed == 1

(***************************************************************************)
(* Strings.                                                                *)
(***************************************************************************)
Whitespace == {" ", "\n", "\t"}

SeqsUpTo(S, n) == UNION {[1..k -> S] : k \in 0..n}

RECURSIVE LStrip(_)
LStrip(s) ==
    IF s = <<>> THEN <<>>
    ELSE IF Head(s) \in Whitespace THEN LStrip(Tail(s)) ELSE s

RECURSIVE RStrip(_)
RStrip(s) ==
    IF s = <<>> THEN <<>>
    ELSE IF s[Len(s)] \in Whitespace THEN RStrip(SubSeq(s, 1, Len(s) - 1)) ELSE s

\* str.strip(): leading and trailing whitespace removed
Strip(s) == RStrip(LStrip(s))

RECURSIVE Flatten(_)
Flatten(ss) == IF ss = <<>> THEN <<>> ELSE Head(ss) \o Flatten(Tail(ss))

\* sep.join(parts)
RECURSIVE Join(_, _)
Join(sep, parts) ==
    IF parts = <<>> THEN <<>>
    ELSE IF Len(parts) = 1 THEN parts[1]
    ELSE parts[1] \o sep \o Join(sep, Tail(parts))

\* template.format(question=..., context=..., answer=...): one pass over the
\* template, a replacement field gives its value, a doubled brace gives one
\* brace, and the substituted values are not scanned again
Format(template, fields) ==
    Flatten([i \in 1..Len(template) |->
                IF template[i] \in DOMAIN fields THEN fields[template[i]]
                ELSE IF template[i] = "{{" THEN <<"{">>
                ELSE IF template[i] = "}}" THEN <<"}">>
                ELSE <<template[i]>>])

Digit(d) == CASE d = 0 -> "0" [] d = 1 -> "1" [] d = 2 -> "2" [] d = 3 -> "3"
              [] d = 4 -> "4" [] d = 5 -> "5" [] d = 6 -> "6" [] d = 7 -> "7"
              [] d = 8 -> "8" [] d = 9 -> "9"

\* str(n) of a non-negative int, as the f-string renders a numeric field
RECURSIVE IntToStr(_)
IntToStr(n) == IF n < 10 THEN <<Digit(n)>> ELSE IntToStr(n \div 10) \o <<Digit(n % 10)>>

IsSuffix(p, s) == Len(p) <= Len(s) /\ SubSeq(s, Len(s) - Len(p) + 1, Len(s)) = p
\* p occurs in s starting at position i
OccursAt(p, s, i) == i + Len(p) - 1 <= Len(s) /\ SubSeq(s, i, i + Len(p) - 1) = p

(***************************************************************************)
(* build_prompt                                                            *)
(***************************************************************************)
PromptTemplateLiteral ==
    << "\n",
       "You're a nutritionist working as a nutrition facts chat assistant. Answer the QUESTION based on the CONTEXT from the nutrition database.",
       "\n",
       "Use only the facts from the CONTEXT when answering the QUESTION. Be specific about measurements and nutritional values.",
       "\n", "\n",
       "QUESTION:", " ", "{question}", "\n", "\n",
       "CONTEXT:", " ", "\n",
       "{context}", "\n" >>

RenderDoc(doc) ==
    <<"Food:", " ">> \o doc.Food \o <<"\n">>
    \o <<"Measure:", " ">> \o doc.Measure \o <<"\n">>
    \o <<"Nutritional Facts:", "\n">>
    \o <<"- Calories:", " ">> \o IntToStr(doc.Calories) \o <<"\n">>
    \o <<"- Protein:", " ">> \o IntToStr(doc.Protein) \o <<"g", "\n">>
    \o <<"- Fat:", " ">> \o IntToStr(doc.Fat) \o <<"g", "\n">>
    \o <<"- Saturated Fat:", " ">> \o IntToStr(doc.SatFat) \o <<"g", "\n">>
    \o <<"- Fiber:", " ">> \o IntToStr(doc.Fiber) \o <<"g", "\n">>
    \o <<"- Carbs:", " ">> \o IntToStr(doc.Carbs) \o <<"g", "\n">>
    \o <<"Category:", " ">> \o doc.Category

\* build_prompt with the blocks joined by a single newline
build_prompt_mut(query, search_results) ==
    LET prompt_template == Strip(PromptTemplateLiteral)
        context == Join(<<"\n">>,
                        [i \in 1..Len(search_results) |-> RenderDoc(search_results[i])])
    IN  Strip(Format(prompt_template,
                     [x \in {"{question}", "{context}"} |->
                         IF x = "{question}" THEN query ELSE context]))

build_prompt(query, search_results) ==
    LET prompt_template == Strip(PromptTemplateLiteral)
        context == Join(<<"\n", "\n">>,
                        [i \in 1..Len(search_results) |-> RenderDoc(search_results[i])])
    IN  Strip(Format(prompt_template,
                     [x \in {"{question}", "{context}"} |->
                         IF x = "{question}" THEN query ELSE context]))

(***************************************************************************)
(* Python float arithmetic (IEEE 754 binary64, round to nearest, ties to   *)
(* even) on the non-negative values calculate_openai_cost computes.        *)
(* A natural number of any size is its sequence of digits in base          *)
(* 2^LimbBits, lowest first, without leading zeros.  A float is [m, e]:    *)
(* the value m * 2^e, m of exactly MantissaBits bits, or zero (m empty).   *)
(* The values of the model stay far from the subnormal and the overflow    *)
(* range.                                                                  *)
(***************************************************************************)
MantissaBits == 53
LimbBits == 12
Base == 2 ^ LimbBits
\* bits beyond the mantissa a quotient is computed to before it is rounded
GuardBits == 2

RECURSIVE LimbsOf(_)
LimbsOf(n) == IF n = 0 THEN <<>> ELSE <<n % Base>> \o LimbsOf(n \div Base)

RECURSIVE LTrim(_)
LTrim(a) ==
    IF a = <<>> THEN <<>>
    ELSE IF a[Len(a)] = 0 THEN LTrim(SubSeq(a, 1, Len(a) - 1)) ELSE a

\* number of bits of a small natural
RECURSIVE BitLen(_)
BitLen(n) == IF n = 0 THEN 0 ELSE 1 + BitLen(n \div 2)

LBitLen(a) == IF a = <<>> THEN 0 ELSE LimbBits * (Len(a) - 1) + BitLen(a[Len(a)])

RECURSIVE LAddC(_, _, _)
LAddC(a, b, carry) ==
    IF a = <<>> /\ b = <<>> THEN (IF carry = 0 THEN <<>> ELSE <<carry>>)
    ELSE LET x == IF a = <<>> THEN 0 ELSE Head(a)
             y == IF b = <<>> THEN 0 ELSE Head(b)
             s == x + y + carry
         IN  <<s % Base>> \o LAddC(IF a = <<>> THEN <<>> ELSE Tail(a),
                                   IF b = <<>> THEN <<>> ELSE Tail(b), s \div Base)

LAdd(a, b) == LAddC(a, b, 0)

\* a * k + carry for a small natural k
RECURSIVE LMulC(_, _, _)
LMulC(a, k, carry) ==
    IF a = <<>> THEN LimbsOf(carry)
    ELSE LET s == Head(a) * k + carry
         IN  <<s % Base>> \o LMulC(Tail(a), k, s \div Base)

LMulSmall(a, k) == LTrim(LMulC(a, k, 0))

\* long division of a by a small d > 0, from limb i down: [q, r]
RECURSIVE LDivFrom(_, _, _, _)
LDivFrom(a, d, i, acc) ==
    IF i = 0 THEN [q |-> LTrim(acc.q), r |-> acc.r]
    ELSE LET r2 == acc.r * Base + a[i]
         IN  LDivFrom(a, d, i - 1, [q |-> <<r2 \div d>> \o acc.q, r |-> r2 % d])

LDiv(a, d) == LDivFrom(a, d, Len(a), [q |-> <<>>, r |-> 0])

\* a * 2^s
LShl(a, s) ==
    IF a = <<>> THEN <<>>
    ELSE [i \in 1..(s \div LimbBits) |-> 0] \o LMulSmall(a, 2 ^ (s % LimbBits))

\* a \div 2^s and whether a bit was shifted out: [q, lost]
LShr(a, s) ==
    LET whole == s \div LimbBits
        qr == LDiv(SubSeq(a, whole + 1, Len(a)), 2 ^ (s % LimbBits))
    IN  [q |-> qr.q, lost |-> qr.r # 0 \/ \E i \in 1..whole : a[i] # 0]

\* a < b, for two naturals of the same number of limbs
RECURSIVE LLessFrom(_, _, _)
LLessFrom(a, b, i) ==
    IF i = 0 THEN FALSE
    ELSE IF a[i] # b[i] THEN a[i] < b[i] ELSE LLessFrom(a, b, i - 1)

DZero == [m |-> <<>>, e |-> 0]

\* the float nearest to n * 2^e (plus, when sticky, a positive fraction of
\* 2^e), ties to even
DRound(n, sticky, e) ==
    LET drop == LBitLen(n) - MantissaBits
    IN  IF n = <<>> THEN DZero
        ELSE IF drop <= 0 THEN [m |-> LShl(n, 0 - drop), e |-> e + drop]
        ELSE LET sh == LShr(n, drop - 1)
                 guard == sh.q[1] % 2
                 mant == LDiv(sh.q, 2).q
                 up == guard = 1 /\ (sticky \/ sh.lost \/ mant[1] % 2 = 1)
                 m2 == IF up THEN LAdd(mant, <<1>>) ELSE mant
             IN  IF LBitLen(m2) > MantissaBits
                 THEN [m |-> LDiv(m2, 2).q, e |-> e + drop + 1]
                 ELSE [m |-> m2, e |-> e + drop]

\* the float a decimal literal denotes: the one nearest to n / d
DLiteral(n, d) ==
    LET k == MantissaBits + GuardBits + BitLen(d)
        qr == LDiv(LShl(LimbsOf(n), k), d)
    IN  DRound(qr.q, qr.r # 0, 0 - k)

\* k * x for an int k >= 0 (the int converts exactly)
DMulInt(k, x) == DRound(LMulSmall(x.m, k), FALSE, x.e)

\* x + y
DAdd(x, y) ==
    IF x.m = <<>> THEN y
    ELSE IF y.m = <<>> THEN x
    ELSE LET emin == IF x.e < y.e THEN x.e ELSE y.e
         IN  DRound(LAdd(LShl(x.m, x.e - emin), LShl(y.m, y.e - emin)), FALSE, emin)

\* x / d for an int d > 0
DDivInt(x, d) ==
    LET k == GuardBits + BitLen(d)
        qr == LDiv(LShl(x.m, k), d)
    IN  DRound(qr.q, qr.r # 0, x.e - k)

\* x <= y
DLeq(x, y) ==
    IF x.m = <<>> THEN TRUE
    ELSE IF y.m = <<>> THEN FALSE
    ELSE IF x.e # y.e THEN x.e < y.e
    ELSE ~LLessFrom(y.m, x.m, Len(x.m))

\* the next float above x > 0
DSucc(x) == DRound(LAdd(x.m, <<1>>), FALSE, x.e)

(***************************************************************************)
(* calculate_openai_cost                                                   *)
(***************************************************************************)
\* model identifiers are sequences of characters
OpenaiGpt35Turbo == <<"o", "p", "e", "n", "a", "i", "/", "g", "p", "t", "-", "3", ".", "5", "-", "t", "u", "r", "b", "o">>
OpenaiGpt4o == <<"o", "p", "e", "n", "a", "i", "/", "g", "p", "t", "-", "4", "o">>
OpenaiGpt4oMini == <<"o", "p", "e", "n", "a", "i", "/", "g", "p", "t", "-", "4", "o", "-", "m", "i", "n", "i">>

\* the float literals 0.0015, 0.002, 0.03 and 0.06
Lit_0_0015 == DLiteral(15, 10000)
Lit_0_002 == DLiteral(2, 1000)
Lit_0_03 == DLiteral(3, 100)
Lit_0_06 == DLiteral(6, 100)

\* calculate_openai_cost without 'openai/gpt-4o-mini' in its second branch
calculate_openai_cost_mut(model_choice, tokens) ==
    IF model_choice = OpenaiGpt35Turbo
    THEN DDivInt(DAdd(DMulInt(tokens.prompt_tokens, Lit_0_0015),
                      DMulInt(tokens.completion_tokens, Lit_0_002)), 1000)
    ELSE IF model_choice \in {OpenaiGpt4o}
    THEN DDivInt(DAdd(DMulInt(tokens.prompt_tokens, Lit_0_03),
                      DMulInt(tokens.completion_tokens, Lit_0_06)), 1000)
    ELSE DZero

calculate_openai_cost(model_choice, tokens) ==
    IF model_choice = OpenaiGpt35Turbo
    THEN DDivInt(DAdd(DMulInt(tokens.prompt_tokens, Lit_0_0015),
                      DMulInt(tokens.completion_tokens, Lit_0_002)), 1000)
    ELSE IF model_choice \in {OpenaiGpt4o, OpenaiGpt4oMini}
    THEN DDivInt(DAdd(DMulInt(tokens.prompt_tokens, Lit_0_03),
                      DMulInt(tokens.completion_tokens, Lit_0_06)), 1000)
    ELSE DZero

(***************************************************************************)
(* llm: the request it sends and what it returns for a response.           *)
(***************************************************************************)
\* s.split(sep): the segments of s between the occurrences of the character sep
RECURSIVE Split(_, _)
Split(s, sep) ==
    IF \A i \in 1..Len(s) : s[i] # sep THEN <<s>>
    ELSE LET i == CHOOSE j \in 1..Len(s) : s[j] = sep /\ \A k \in 1..(j - 1) : s[k] # sep
         IN  <<SubSeq(s, 1, i - 1)>> \o Split(SubSeq(s, i + 1, Len(s)), sep)

\* xs[-1]
Last(xs) == xs[Len(xs)]

\* llm sending the identifier as it is
llm_request_mut(prompt, model_choice) ==
    [model |-> model_choice,
     messages |-> <<[role |-> "user", content |-> prompt]>>]

llm_request(prompt, model_choice) ==
    [model |-> Last(Split(model_choice, "/")),
     messages |-> <<[role |-> "user", content |-> prompt]>>]

\* llm computing the total itself
llm_return_mut(response, elapsed) ==
    [answer |-> response.content,
     tokens |-> [prompt_tokens |-> response.usage.prompt_tokens,
                 completion_tokens |-> response.usage.completion_tokens,
                 total_tokens |-> response.usage.prompt_tokens
                                     + response.usage.completion_tokens],
     response_time |-> elapsed]

\* response: [content, usage]; elapsed: end_time - start_time
llm_return(response, elapsed) ==
    [answer |-> response.content,
     tokens |-> [prompt_tokens |-> response.usage.prompt_tokens,
                 completion_tokens |-> response.usage.completion_tokens,
                 total_tokens |-> response.usage.total_tokens],
     response_time |-> elapsed]

(***************************************************************************)
(* json.loads on the judge's text.  The text is a sequence of JSON tokens  *)
(* (punctuation, string literals, numbers, null) or of other words.  A     *)
(* decoded value is [t, v, members]: a scalar of type t written v, an      *)
(* empty array, or an object with its members (scalars).                   *)
(***************************************************************************)
StringLiterals ==
    [tok \in {"\"Relevance\"", "\"Explanation\"", "\"RELEVANT\"", "\"PARTLY_RELEVANT\"",
              "\"NON_RELEVANT\"", "\"SOMEWHAT\"", "\"ok\""} |->
        CASE tok = "\"Relevance\"" -> "Relevance"
          [] tok = "\"Explanation\"" -> "Explanation"
          [] tok = "\"RELEVANT\"" -> "RELEVANT"
          [] tok = "\"PARTLY_RELEVANT\"" -> "PARTLY_RELEVANT"
          [] tok = "\"NON_RELEVANT\"" -> "NON_RELEVANT"
          [] tok = "\"SOMEWHAT\"" -> "SOMEWHAT"
          [] tok = "\"ok\"" -> "ok"]
NumberLiterals == {"0", "1"}

NoMembers == [k \in {} |-> 0]
PyStr(s) == [t |-> "str", v |-> s, members |-> NoMembers]

IsScalar(tok) == tok \in DOMAIN StringLiterals \/ tok \in NumberLiterals \/ tok = "null"
Scalar(tok) ==
    IF tok \in DOMAIN StringLiterals THEN PyStr(StringLiterals[tok])
    ELSE IF tok \in NumberLiterals THEN [t |-> "int", v |-> tok, members |-> NoMembers]
    ELSE [t |-> "NoneType", v |-> "None", members |-> NoMembers]

\* the tokens between the braces are  key : scalar , key : scalar ...
IsMembers(inner) ==
    /\ Len(inner) % 4 = 3
    /\ \A i \in 1..Len(inner) :
          CASE i % 4 = 1 -> inner[i] \in DOMAIN StringLiterals
            [] i % 4 = 2 -> inner[i] = ":"
            [] i % 4 = 3 -> IsScalar(inner[i])
            [] OTHER -> inner[i] = ","

\* a repeated key keeps its last value
Members(inner) ==
    LET n == (Len(inner) + 1) \div 4
        keys == {StringLiterals[inner[4 * j - 3]] : j \in 1..n}
    IN  [k \in keys |->
            LET j == CHOOSE j \in 1..n :
                        /\ StringLiterals[inner[4 * j - 3]] = k
                        /\ \A j2 \in (j + 1)..n : StringLiterals[inner[4 * j2 - 3]] # k
            IN  Scalar(inner[4 * j - 1])]

\* [ok, value]: ok is FALSE where json.loads raises JSONDecodeError
json_loads(text) ==
    LET inner == SubSeq(text, 2, Len(text) - 1)
        bad == [ok |-> FALSE, value |-> PyStr("")]
    IN  IF Len(text) = 1 /\ IsScalar(text[1]) THEN [ok |-> TRUE, value |-> Scalar(text[1])]
        ELSE IF text = <<"[", "]">>
        THEN [ok |-> TRUE, value |-> [t |-> "list", v |-> "[]", members |-> NoMembers]]
        ELSE IF Len(text) >= 2 /\ text[1] = "{" /\ text[Len(text)] = "}"
        THEN IF inner = <<>>
             THEN [ok |-> TRUE, value |-> [t |-> "dict", v |-> "{}", members |-> NoMembers]]
             ELSE IF IsMembers(inner)
             THEN [ok |-> TRUE,
                   value |-> [t |-> "dict", v |-> "{}", members |-> Members(inner)]]
             ELSE bad
        ELSE bad

\* value[key]: [exc, value]; exc names the exception raised, "" when none
Subscript(value, key) ==
    IF value.t # "dict" THEN [exc |-> "TypeError", value |-> PyStr("")]
    ELSE IF key \notin DOMAIN value.members THEN [exc |-> "KeyError", value |-> PyStr("")]
    ELSE [exc |-> "", value |-> value.members[key]]

(***************************************************************************)
(* evaluate_relevance                                                      *)
(***************************************************************************)
EvalTemplateLiteral ==
    << "\n", " ", " ", " ", " ",
       "You are an expert evaluator for a Nutrition Facts Retrieval-Augmented Generation (RAG) system.",
       "\n", " ", " ", " ", " ",
       "Your task is to analyze the relevance of the generated answer to the given nutrition question.",
       "\n", " ", " ", " ", " ",
       "Based on the relevance and accuracy of the nutritional information provided, classify it",
       "\n", " ", " ", " ", " ",
       "as \"NON_RELEVANT\", \"PARTLY_RELEVANT\", or \"RELEVANT\".",
       "\n", "\n", " ", " ", " ", " ",
       "Here is the data for evaluation:",
       "\n", "\n", " ", " ", " ", " ",
       "Question:", " ", "{question}",
       "\n", " ", " ", " ", " ",
       "Generated Answer:", " ", "{answer}",
       "\n", "\n", " ", " ", " ", " ",
       "Please analyze the content and context of the generated answer in relation to the question",
       "\n", " ", " ", " ", " ",
       "and provide your evaluation in parsable JSON without using code blocks:",
       "\n", "\n", " ", " ", " ", " ",
       "{{",
       "\n", " ", " ", " ", " ", " ", " ",
       "\"Relevance\": \"NON_RELEVANT\" | \"PARTLY_RELEVANT\" | \"RELEVANT\",",
       "\n", " ", " ", " ", " ", " ", " ",
       "\"Explanation\": \"[Provide a brief explanation for your evaluation]\"",
       "\n", " ", " ", " ", " ",
       "}}",
       "\n", " ", " ", " ", " " >>

JudgeModel == OpenaiGpt4oMini

evaluate_relevance_prompt(question, answer) ==
    Format(Strip(EvalTemplateLiteral),
           [x \in {"{question}", "{answer}"} |->
               IF x = "{question}" THEN question ELSE answer])

\* evaluate_relevance turning a verdict that is none of the three into UNKNOWN
evaluate_relevance_result_mut(evaluation, tokens) ==
    LET json_eval == json_loads(evaluation)
        rel == Subscript(json_eval.value, "Relevance")
        expl == Subscript(json_eval.value, "Explanation")
        raised(e) == [exc |-> e, relevance |-> PyStr(""), explanation |-> PyStr(""),
                      tokens |-> tokens]
    IN  IF ~json_eval.ok
        THEN [exc |-> "", relevance |-> PyStr("UNKNOWN"),
              explanation |-> PyStr("Failed to parse evaluation"), tokens |-> tokens]
        ELSE IF rel.exc # "" THEN raised(rel.exc)
        ELSE IF expl.exc # "" THEN raised(expl.exc)
        ELSE [exc |-> "",
              relevance |-> IF rel.value \in {PyStr("RELEVANT"), PyStr("PARTLY_RELEVANT"),
                                              PyStr("NON_RELEVANT")}
                            THEN rel.value ELSE PyStr("UNKNOWN"),
              explanation |-> expl.value, tokens |-> tokens]

\* what evaluate_relevance does with llm's return value: [exc, relevance,
\* explanation, tokens]; exc names the exception that leaves it, "" when none
evaluate_relevance_result(evaluation, tokens) ==
    LET json_eval == json_loads(evaluation)
        rel == Subscript(json_eval.value, "Relevance")
        expl == Subscript(json_eval.value, "Explanation")
        raised(e) == [exc |-> e, relevance |-> PyStr(""), explanation |-> PyStr(""),
                      tokens |-> tokens]
    IN  IF ~json_eval.ok
        THEN [exc |-> "", relevance |-> PyStr("UNKNOWN"),
              explanation |-> PyStr("Failed to parse evaluation"), tokens |-> tokens]
        ELSE IF rel.exc # "" THEN raised(rel.exc)
        ELSE IF expl.exc # "" THEN raised(expl.exc)
        ELSE [exc |-> "", relevance |-> rel.value, explanation |-> expl.value,
              tokens |-> tokens]

(***************************************************************************)
(* State.  args, pc, frame, calls, stages and result are per invocation of *)
(* get_answer; bp and cc hold the arguments and the return value of a      *)
(* direct call of build_prompt and of calculate_openai_cost.               *)
(***************************************************************************)
VARIABLES args, pc, frame, calls, stages, result, bp, cc

vars == <<args, pc, frame, calls, stages, result, bp, cc>>
pipeline_vars == <<args, pc, frame, calls, stages, result>>

\* an absent value is the empty tuple, a present one a 1-tuple
Absent == <<>>
Some(x) == <<x>>

(***************************************************************************)
(* Direct calls of build_prompt.                                           *)
(***************************************************************************)
Questions == SeqsUpTo({"q", " "}, MaxStrLen)
Categories == SeqsUpTo({"F", " "}, MaxStrLen)

Doc(food, category) ==
    [Food |-> food, Measure |-> <<"1", " ", "c", "u", "p">>, Grams |-> 182,
     Calories |-> 95, Protein |-> 0, Fat |-> 0, SatFat |-> 0, Fiber |-> 4,
     Carbs |-> 25, Category |-> category]

PromptDocs == {Doc(<<"a">>, c) : c \in Categories}

NoPipeline ==
    /\ args = <<>> /\ pc = <<>> /\ frame = <<>>
    /\ calls = <<>> /\ stages = <<>> /\ result = <<>>

InitPrompt ==
    /\ NoPipeline
    /\ cc = Absent
    /\ \E q \in Questions, rs \in SeqsUpTo(PromptDocs, MaxRecords) :
          bp = [query |-> q, search_results |-> rs, out |-> Absent]

BuildPromptCall ==
    /\ bp.out = Absent
    /\ bp' = [bp EXCEPT !.out = Some(build_prompt(bp.query, bp.search_results))]
    /\ UNCHANGED <<pipeline_vars, cc>>

NextPrompt == BuildPromptCall

SpecPrompt == InitPrompt /\ [][NextPrompt]_vars

(***************************************************************************)
(* Direct calls of calculate_openai_cost.                                  *)
(***************************************************************************)
Gpt4o == <<"g", "p", "t", "-", "4", "o">>
OpenaiGpt4 == <<"o", "p", "e", "n", "a", "i", "/", "g", "p", "t", "-", "4">>

\* the identifiers of the rate table, two near misses, and every short
\* identifier over a letter and the separator
ModelChoices ==
    {OpenaiGpt35Turbo, OpenaiGpt4o, OpenaiGpt4oMini, Gpt4o, OpenaiGpt4}
        \cup SeqsUpTo({"a", "/"}, MaxIdLen)

TokenCounts == (0..MaxTok) \cup {20, 100}

Usage(p, c, t) == [prompt_tokens |-> p, completion_tokens |-> c, total_tokens |-> t]

InitCost ==
    /\ NoPipeline
    /\ bp = Absent
    /\ \E m \in ModelChoices, p \in TokenCounts, c \in TokenCounts :
          cc = [model_choice |-> m, tokens |-> Usage(p, c, p + c), out |-> Absent]

CostCall ==
    /\ cc.out = Absent
    /\ cc' = [cc EXCEPT !.out = Some(calculate_openai_cost(cc.model_choice, cc.tokens))]
    /\ UNCHANGED <<pipeline_vars, bp>>

NextCost == CostCall

SpecCost == InitCost /\ [][NextCost]_vars

(***************************************************************************)
(* get_answer, one action per external call.  Each call either answers or  *)
(* fails; a failure is an exception that get_answer does not catch.        *)
(* calls[self] records every request of the invocation with its outcome,   *)
(* stages[self] the stages it has entered.                                 *)
(***************************************************************************)
Vector == "Vector"
IndexName == "nutrition-facts"

SearchTextRequest(query, category, index_name) ==
    [index |-> index_name,
     body |-> [size |-> 5,
               query |-> [bool |->
                   [must |-> [multi_match |->
                       [query |-> query,
                        fields |-> <<"Food^3", "Measure", "Grams", "Calories", "Protein",
                                     "Fat", "SatFat", "Fiber", "Carbs">>,
                        type |-> "best_fields"]],
                    filter |-> [term |-> [Category |-> category]]]]]]

SearchKnnRequest(field, vector, category, index_name) ==
    [index |-> index_name,
     body |-> [knn |-> [field |-> field, query_vector |-> vector, k |-> 5,
                        num_candidates |-> 10000,
                        filter |-> [term |-> [Category |-> category]]],
               _source |-> <<"Food", "Measure", "Grams", "Calories", "Protein", "Fat",
                             "SatFat", "Fiber", "Carbs", "Category", "id">>]]

\* the encoder's vector for a text
Embedding(text) == [embedding_of |-> text]

NoFrame ==
    [vector |-> Absent, search_results |-> Absent, prompt |-> Absent, answer |-> Absent,
     tokens |-> Absent, response_time |-> Absent, relevance |-> Absent,
     explanation |-> Absent, eval_tokens |-> Absent, openai_cost |-> Absent]

Running == [kind |-> "running", exc |-> "", value |-> Absent]
Raised(e) == [kind |-> "raise", exc |-> e, value |-> Absent]
Returned(v) == [kind |-> "return", exc |-> "", value |-> Some(v)]

\* a call of a service: its request, whether it answered, the answer, and
\* the time it took
Answered(svc, req, resp, elapsed) ==
    [svc |-> svc, req |-> req, ok |-> TRUE, resp |-> Some(resp), elapsed |-> elapsed]
Failed(svc, req) == [svc |-> svc, req |-> req, ok |-> FALSE, resp |-> Absent, elapsed |-> 0]

\* the failed call is caught and made again
Fail_mut(self, svc, req) ==
    /\ calls' = [calls EXCEPT ![self] = Append(@, Failed(svc, req))]
    /\ UNCHANGED <<pc, result, frame>>

\* the call fails: the exception leaves get_answer
Fail(self, svc, req) ==
    /\ calls' = [calls EXCEPT ![self] = Append(@, Failed(svc, req))]
    /\ pc' = [pc EXCEPT ![self] = "done"]
    /\ result' = [result EXCEPT ![self] = Raised("ServiceError")]
    /\ UNCHANGED frame

\* line 153: vector = model.encode(query)
Encode(self) ==
    LET req == [text |-> args[self].query]
    IN  /\ pc[self] = "start"
        /\ args[self].search_type = Vector
        /\ stages' = [stages EXCEPT ![self] = Append(@, "retrieve")]
        /\ \/ /\ calls' = [calls EXCEPT ![self] =
                              Append(@, Answered("encoder", req, Embedding(req.text), 0))]
              /\ frame' = [frame EXCEPT ![self].vector = Some(Embedding(req.text))]
              /\ pc' = [pc EXCEPT ![self] = "knn"]
              /\ UNCHANGED result
           \/ Fail(self, "encoder", req)
        /\ UNCHANGED <<args, bp, cc>>

\* line 154: search_results = elastic_search_knn('full_vector', vector, category)
SearchKnn(self, D) ==
    LET req == SearchKnnRequest("full_vector", frame[self].vector[1],
                                args[self].category, IndexName)
    IN  /\ pc[self] = "knn"
        /\ \/ \E hits \in D.hits :
                /\ calls' = [calls EXCEPT ![self] = Append(@, Answered("search", req, hits, 0))]
                /\ frame' = [frame EXCEPT ![self].search_results = Some(hits)]
                /\ pc' = [pc EXCEPT ![self] = "generate"]
                /\ UNCHANGED result
           \/ Fail(self, "search", req)
        /\ UNCHANGED <<args, stages, bp, cc>>

\* line 156: search_results = elastic_search_text(query, category)
SearchText(self, D) ==
    LET req == SearchTextRequest(args[self].query, args[self].category, IndexName)
    IN  /\ pc[self] = "start"
        /\ args[self].search_type # Vector
        /\ stages' = [stages EXCEPT ![self] = Append(@, "retrieve")]
        /\ \/ \E hits \in D.hits :
                /\ calls' = [calls EXCEPT ![self] = Append(@, Answered("search", req, hits, 0))]
                /\ frame' = [frame EXCEPT ![self].search_results = Some(hits)]
                /\ pc' = [pc EXCEPT ![self] = "generate"]
                /\ UNCHANGED result
           \/ Fail(self, "search", req)
        /\ UNCHANGED <<args, bp, cc>>

\* get_answer keeping tokens in a module-level variable that every invocation
\* reads
Generate_mut(self, D) ==
    LET prompt == build_prompt(args[self].query, frame[self].search_results[1])
        req == llm_request(prompt, args[self].model_choice)
    IN  /\ pc[self] = "generate"
        /\ stages' = [stages EXCEPT ![self] = @ \o <<"build_prompt", "generate">>]
        /\ \/ \E r \in D.gen :
                LET ret == llm_return(r.response, r.elapsed)
                IN  /\ calls' = [calls EXCEPT ![self] =
                                    Append(@, Answered("openai", req, r.response, r.elapsed))]
                    /\ frame' = [p \in DOMAIN frame |->
                                    IF p = self
                                    THEN [frame[p] EXCEPT !.prompt = Some(prompt),
                                                          !.answer = Some(ret.answer),
                                                          !.tokens = Some(ret.tokens),
                                                          !.response_time = Some(ret.response_time)]
                                    ELSE [frame[p] EXCEPT !.tokens = Some(ret.tokens)]]
                    /\ pc' = [pc EXCEPT ![self] = "evaluate"]
                    /\ UNCHANGED result
           \/ Fail(self, "openai", req)
        /\ UNCHANGED <<args, bp, cc>>

\* lines 158-159: prompt = build_prompt(...); answer, tokens, response_time = llm(...)
Generate(self, D) ==
    LET prompt == build_prompt(args[self].query, frame[self].search_results[1])
        req == llm_request(prompt, args[self].model_choice)
    IN  /\ pc[self] = "generate"
        /\ stages' = [stages EXCEPT ![self] = @ \o <<"build_prompt", "generate">>]
        /\ \/ \E r \in D.gen :
                LET ret == llm_return(r.response, r.elapsed)
                IN  /\ calls' = [calls EXCEPT ![self] =
                                    Append(@, Answered("openai", req, r.response, r.elapsed))]
                    /\ frame' = [frame EXCEPT ![self].prompt = Some(prompt),
                                              ![self].answer = Some(ret.answer),
                                              ![self].tokens = Some(ret.tokens),
                                              ![self].response_time = Some(ret.response_time)]
                    /\ pc' = [pc EXCEPT ![self] = "evaluate"]
                    /\ UNCHANGED result
           \/ Fail(self, "openai", req)
        /\ UNCHANGED <<args, bp, cc>>

\* evaluate_relevance asking the judge again when its text does not parse
Evaluate_mut(self, D) ==
    LET prompt == evaluate_relevance_prompt(args[self].query, frame[self].answer[1])
        req == llm_request(prompt, JudgeModel)
    IN  /\ pc[self] = "evaluate"
        /\ stages' = [stages EXCEPT ![self] = Append(@, "evaluate")]
        /\ \/ \E r \in D.judge :
                LET ret == llm_return(r.response, r.elapsed)
                    ev == evaluate_relevance_result(ret.answer, ret.tokens)
                IN  /\ calls' = [calls EXCEPT ![self] =
                                    Append(@, Answered("openai", req, r.response, r.elapsed))]
                    /\ IF ev.exc # ""
                       THEN /\ pc' = [pc EXCEPT ![self] = "done"]
                            /\ result' = [result EXCEPT ![self] = Raised(ev.exc)]
                            /\ UNCHANGED frame
                       ELSE IF ~json_loads(ret.answer).ok
                       THEN UNCHANGED <<pc, result, frame>>
                       ELSE /\ frame' = [frame EXCEPT ![self].relevance = Some(ev.relevance),
                                                      ![self].explanation = Some(ev.explanation),
                                                      ![self].eval_tokens = Some(ev.tokens)]
                            /\ pc' = [pc EXCEPT ![self] = "cost"]
                            /\ UNCHANGED result
           \/ Fail(self, "openai", req)
        /\ UNCHANGED <<args, bp, cc>>

\* line 161: relevance, explanation, eval_tokens = evaluate_relevance(query, answer)
Evaluate(self, D) ==
    LET prompt == evaluate_relevance_prompt(args[self].query, frame[self].answer[1])
        req == llm_request(prompt, JudgeModel)
    IN  /\ pc[self] = "evaluate"
        /\ stages' = [stages EXCEPT ![self] = Append(@, "evaluate")]
        /\ \/ \E r \in D.judge :
                LET ret == llm_return(r.response, r.elapsed)
                    ev == evaluate_relevance_result(ret.answer, ret.tokens)
                IN  /\ calls' = [calls EXCEPT ![self] =
                                    Append(@, Answered("openai", req, r.response, r.elapsed))]
                    /\ IF ev.exc # ""
                       THEN /\ pc' = [pc EXCEPT ![self] = "done"]
                            /\ result' = [result EXCEPT ![self] = Raised(ev.exc)]
                            /\ UNCHANGED frame
                       ELSE /\ frame' = [frame EXCEPT ![self].relevance = Some(ev.relevance),
                                                      ![self].explanation = Some(ev.explanation),
                                                      ![self].eval_tokens = Some(ev.tokens)]
                            /\ pc' = [pc EXCEPT ![self] = "cost"]
                            /\ UNCHANGED result
           \/ Fail(self, "openai", req)
        /\ UNCHANGED <<args, bp, cc>>

\* get_answer charging the judge call's tokens as well
Return_mut(self) ==
    LET f == frame[self]
        openai_cost ==
            calculate_openai_cost(args[self].model_choice,
                [prompt_tokens |-> f.tokens[1].prompt_tokens + f.eval_tokens[1].prompt_tokens,
                 completion_tokens |-> f.tokens[1].completion_tokens
                                          + f.eval_tokens[1].completion_tokens,
                 total_tokens |-> f.tokens[1].total_tokens + f.eval_tokens[1].total_tokens])
    IN  /\ pc[self] = "cost"
        /\ stages' = [stages EXCEPT ![self] = Append(@, "cost")]
        /\ frame' = [frame EXCEPT ![self].openai_cost = Some(openai_cost)]
        /\ result' = [result EXCEPT ![self] = Returned(
              [answer |-> f.answer[1],
               response_time |-> f.response_time[1],
               relevance |-> f.relevance[1],
               relevance_explanation |-> f.explanation[1],
               model_used |-> args[self].model_choice,
               prompt_tokens |-> f.tokens[1].prompt_tokens,
               completion_tokens |-> f.tokens[1].completion_tokens,
               total_tokens |-> f.tokens[1].total_tokens,
               eval_prompt_tokens |-> f.eval_tokens[1].prompt_tokens,
               eval_completion_tokens |-> f.eval_tokens[1].completion_tokens,
               eval_total_tokens |-> f.eval_tokens[1].total_tokens,
               openai_cost |-> openai_cost])]
        /\ pc' = [pc EXCEPT ![self] = "done"]
        /\ UNCHANGED <<args, calls, bp, cc>>

\* lines 163-178: openai_cost = calculate_openai_cost(...); return {...}
Return(self) ==
    LET f == frame[self]
        openai_cost == calculate_openai_cost(args[self].model_choice, f.tokens[1])
    IN  /\ pc[self] = "cost"
        /\ stages' = [stages EXCEPT ![self] = Append(@, "cost")]
        /\ frame' = [frame EXCEPT ![self].openai_cost = Some(openai_cost)]
        /\ result' = [result EXCEPT ![self] = Returned(
              [answer |-> f.answer[1],
               response_time |-> f.response_time[1],
               relevance |-> f.relevance[1],
               relevance_explanation |-> f.explanation[1],
               model_used |-> args[self].model_choice,
               prompt_tokens |-> f.tokens[1].prompt_tokens,
               completion_tokens |-> f.tokens[1].completion_tokens,
               total_tokens |-> f.tokens[1].total_tokens,
               eval_prompt_tokens |-> f.eval_tokens[1].prompt_tokens,
               eval_completion_tokens |-> f.eval_tokens[1].completion_tokens,
               eval_total_tokens |-> f.eval_tokens[1].total_tokens,
               openai_cost |-> openai_cost])]
        /\ pc' = [pc EXCEPT ![self] = "done"]
        /\ UNCHANGED <<args, calls, bp, cc>>

(***************************************************************************)
(* The services' answers and the callers' arguments.                       *)
(***************************************************************************)
Apple == Doc(<<"a">>, <<"F">>)
Banana == Doc(<<"b">>, <<"F">>)

NotJson == <<"not", "json">>
Fenced(text) == <<"~~~json">> \o text \o <<"~~~">>
Verdict(rel, expl) ==
    <<"{", "\"Relevance\"", ":", rel, ",", "\"Explanation\"", ":", expl, "}">>

JudgeTexts ==
    { NotJson,
      Fenced(Verdict("\"RELEVANT\"", "\"ok\"")),
      Verdict("\"RELEVANT\"", "\"ok\""),
      Verdict("\"PARTLY_RELEVANT\"", "\"ok\""),
      Verdict("\"NON_RELEVANT\"", "\"ok\""),
      Verdict("\"SOMEWHAT\"", "\"ok\""),
      Verdict("1", "null"),
      <<"{", "}">>,
      <<"{", "\"Relevance\"", ":", "\"RELEVANT\"", "}">>,
      <<"{", "\"Explanation\"", ":", "\"ok\"", "}">>,
      <<"[", "]">>,
      <<"\"RELEVANT\"">>,
      <<"null">> }

\* the service's usage need not add up
Usages(ps, cs) ==
    UNION {{Usage(pc2[1], pc2[2], pc2[1] + pc2[2]), Usage(pc2[1], pc2[2], 0)} : pc2 \in ps \X cs}

\* the index's ranking for the category, of which a search returns the top
Ranking == [i \in 1..MaxHits |-> IF i % 2 = 1 THEN Apple ELSE Banana]

Domains ==
    [hits |-> {SubSeq(Ranking, 1, k) : k \in 0..MaxHits},
     gen |-> {[response |-> [content |-> <<"9", "5">>, usage |-> u], elapsed |-> e] :
                 u \in Usages({MaxTok, 100}, {20}), e \in 0..MaxElapsed},
     judge |-> {[response |-> [content |-> t, usage |-> u], elapsed |-> 0] :
                   t \in JudgeTexts, u \in {Usage(50, 10, 60), Usage(7, 1, 0)}}]

PipelineModels ==
    {OpenaiGpt35Turbo, OpenaiGpt4oMini, Gpt4o} \cup SeqsUpTo({"a", "/"}, MaxIdLen)

\* the state in which the invocations of P have been called with arguments a
Called(P, a) ==
    /\ bp = Absent /\ cc = Absent
    /\ args = a
    /\ pc = [p \in P |-> "start"]
    /\ frame = [p \in P |-> NoFrame]
    /\ calls = [p \in P |-> <<>>]
    /\ stages = [p \in P |-> <<>>]
    /\ result = [p \in P |-> Running]

\* one invocation
Init ==
    \E m \in PipelineModels, st \in {Vector, "Text"} :
        Called({1}, [p \in {1} |-> [query |-> <<"q">>, category |-> <<"F">>,
                                   model_choice |-> m, search_type |-> st]])

Next ==
    \/ \E self \in DOMAIN pc : Encode(self)
    \/ \E self \in DOMAIN pc : SearchKnn(self, Domains)
    \/ \E self \in DOMAIN pc : SearchText(self, Domains)
    \/ \E self \in DOMAIN pc : Generate(self, Domains)
    \/ \E self \in DOMAIN pc : Evaluate(self, Domains)
    \/ \E self \in DOMAIN pc : Return(self)

Spec == Init /\ [][Next]_vars

(***************************************************************************)
(* Two invocations running concurrently, their steps interleaved.          *)
(***************************************************************************)
Invocations == {1, 2}

ConcDomains ==
    [hits |-> {<<Apple>>},
     gen |-> {[response |-> [content |-> <<"9", "5">>, usage |-> Usage(100, 20, 120)],
               elapsed |-> 0],
              [response |-> [content |-> <<"5", "2">>, usage |-> Usage(MaxTok, 20, 0)],
               elapsed |-> 1]},
     judge |-> {[response |-> [content |-> t, usage |-> u], elapsed |-> 0] :
                   t \in {NotJson, Verdict("\"RELEVANT\"", "\"ok\"")},
                   u \in {Usage(50, 10, 60), Usage(7, 1, 0)}}]

InitConc ==
    \E ms \in [Invocations -> {OpenaiGpt4o, Gpt4o}], sts \in [Invocations -> {Vector, "Text"}] :
        Called(Invocations,
               [p \in Invocations |-> [query |-> <<"q", Digit(p)>>, category |-> <<"F">>,
                                       model_choice |-> ms[p], search_type |-> sts[p]]])

NextConc ==
    \/ \E self \in DOMAIN pc : Encode(self)
    \/ \E self \in DOMAIN pc : SearchKnn(self, ConcDomains)
    \/ \E self \in DOMAIN pc : SearchText(self, ConcDomains)
    \/ \E self \in DOMAIN pc : Generate(self, ConcDomains)
    \/ \E self \in DOMAIN pc : Evaluate(self, ConcDomains)
    \/ \E self \in DOMAIN pc : Return(self)

SpecConc == InitConc /\ [][NextConc]_vars

(***************************************************************************)
(* Claims about build_prompt (SpecPrompt).                                 *)
(***************************************************************************)
Blocks(rs) == [i \in 1..Len(rs) |-> RenderDoc(rs[i])]
BlankLine == <<"\n", "\n">>
\* the question stands, letter for letter, in the QUESTION line
HasQuestion(out, q) ==
    \E i \in 1..Len(out) :
        OccursAt(<<"QUESTION:", " ">> \o q \o <<"\n", "\n", "CONTEXT:">>, out, i)
EndsInSpace(s) == s = <<>> \/ s[Len(s)] \in Whitespace

\* C9 as stated: the prompt holds the literal question and then, after
\* "CONTEXT:", one rendered block per record, whole and in input order, with a
\* blank line between two blocks; with no record nothing follows "CONTEXT:".
C9_AsStated ==
    bp # Absent /\ bp.out # Absent =>
        LET out == bp.out[1]
            rs == bp.search_results
        IN  /\ HasQuestion(out, bp.query)
            /\ rs # <<>> =>
                  IsSuffix(<<"CONTEXT:", " ", "\n">> \o Join(BlankLine, Blocks(rs)), out)
            /\ rs = <<>> => IsSuffix(<<"CONTEXT:">>, out)

\* C9 amended: as C9, except that the final strip() removes the whitespace that
\* ends the last block (the whitespace ending the last record's Category, and
\* the space after "Category:" when that Category is empty); the blocks are
\* whole whenever the last record's Category ends in a non-whitespace character.
C9_PromptBlocks ==
    bp # Absent /\ bp.out # Absent =>
        LET out == bp.out[1]
            rs == bp.search_results
            ctx == Join(BlankLine, Blocks(rs))
        IN  /\ HasQuestion(out, bp.query)
            /\ rs # <<>> =>
                  /\ IsSuffix(<<"CONTEXT:", " ", "\n">> \o RStrip(ctx), out)
                  /\ ~EndsInSpace(rs[Len(rs)].Category) =>
                        IsSuffix(<<"CONTEXT:", " ", "\n">> \o ctx, out)
            /\ rs = <<>> => IsSuffix(<<"CONTEXT:">>, out)

\* two different records rendered, the last one with a Category ending in a space
C9_Witness ==
    /\ bp # Absent /\ bp.out # Absent
    /\ Len(bp.search_results) = 2
    /\ bp.search_results[1] # bp.search_results[2]
    /\ bp.search_results[2].Category # <<>>
    /\ EndsInSpace(bp.search_results[2].Category)
    /\ bp.query # <<>>

(***************************************************************************)
(* Claims about calculate_openai_cost (SpecCost).                          *)
(***************************************************************************)
\* the rate table of the claim: per-1000-token input and output rate
RateTable ==
    [m \in {OpenaiGpt35Turbo, OpenaiGpt4o, OpenaiGpt4oMini} |->
        IF m = OpenaiGpt35Turbo
        THEN [input |-> DLiteral(15, 10000), output |-> DLiteral(2, 1000)]
        ELSE [input |-> DLiteral(3, 100), output |-> DLiteral(6, 100)]]

Priced(m, p, c) ==
    DDivInt(DAdd(DMulInt(p, RateTable[m].input), DMulInt(c, RateTable[m].output)), 1000)

\* formula for an identifier of the table, 0 for any other, never negative,
\* never smaller for more prompt tokens or more completion tokens
CostLaw(example) ==
    cc # Absent /\ cc.out # Absent =>
        LET m == cc.model_choice
            p == cc.tokens.prompt_tokens
            c == cc.tokens.completion_tokens
            out == cc.out[1]
        IN  /\ m \in DOMAIN RateTable => out = Priced(m, p, c)
            /\ m \notin DOMAIN RateTable => out = DZero
            /\ out = DZero \/ (LBitLen(out.m) = MantissaBits /\ DLeq(DZero, out))
            /\ \A p2 \in TokenCounts : p <= p2 =>
                  DLeq(out, calculate_openai_cost(m, Usage(p2, c, p2 + c)))
            /\ \A c2 \in TokenCounts : c <= c2 =>
                  DLeq(out, calculate_openai_cost(m, Usage(p, c2, p + c2)))
            /\ m = OpenaiGpt4o /\ p = 100 /\ c = 20 => out = example

\* C5 as stated: the cost is the table formula, 0 off the table, non-negative
\* and non-decreasing in each count, and 100 prompt and 20 completion tokens at
\* 0.03/0.06 cost the float 0.0042.
C5_AsStated == CostLaw(DLiteral(42, 10000))

\* C5 amended: as C5, except that 100 prompt and 20 completion tokens at
\* 0.03/0.06 cost 0.004200000000000001, the float next above 0.0042 (the
\* formula is evaluated in binary floating point).
C5_CostLaw == CostLaw(DSucc(DLiteral(42, 10000)))

\* the example of the claim has been computed
C5_Witness ==
    /\ cc # Absent /\ cc.out # Absent
    /\ cc.model_choice = OpenaiGpt4o
    /\ cc.tokens.prompt_tokens = 100 /\ cc.tokens.completion_tokens = 20
    /\ cc.out[1] # DZero

(***************************************************************************)
(* Claims about get_answer (Spec: one invocation).                         *)
(***************************************************************************)
OpenaiCalls(self) == SelectSeq(calls[self], LAMBDA c : c.svc = "openai")
\* the judge has answered the invocation
Judged(self) == Len(OpenaiCalls(self)) >= 2 /\ OpenaiCalls(self)[2].ok
JudgeText(self) == OpenaiCalls(self)[2].resp[1].content
HasReport(self) == result[self].kind = "return"
Report(self) == result[self].value[1]
Unknown == PyStr("UNKNOWN")
ParseFailure == PyStr("Failed to parse evaluation")

\* valid JSON that is no object with both keys
LacksKeys(text) ==
    LET j == json_loads(text)
    IN  j.ok /\ ~(j.value.t = "dict" /\ {"Relevance", "Explanation"} \subseteq DOMAIN j.value.members)

\* C1 as stated: when the judge's text is not valid JSON, or is valid JSON
\* without the keys Relevance and Explanation, no exception leaves get_answer
\* and the verdict is UNKNOWN with the explanation "Failed to parse evaluation".
C1_AsStated ==
    \A self \in DOMAIN pc :
        Judged(self) /\ (~json_loads(JudgeText(self)).ok \/ LacksKeys(JudgeText(self))) =>
            /\ result[self].kind # "raise"
            /\ frame[self].relevance = Some(Unknown)
            /\ frame[self].explanation = Some(ParseFailure)

StageOfCall(self, i) ==
    IF calls[self][i].svc \in {"encoder", "search"} THEN "retrieve"
    ELSE IF \E j \in 1..(i - 1) : calls[self][j].svc = "openai" THEN "evaluate"
    ELSE "generate"

\* C2: a failed call is the last call of the invocation (it is not retried and
\* no later stage calls anything), the stage it belongs to is the last stage
\* entered, and the invocation has ended with the failure and without a report.
C2_FailureStops ==
    \A self \in DOMAIN pc :
        \A i \in 1..Len(calls[self]) :
            ~calls[self][i].ok =>
                /\ i = Len(calls[self])
                /\ \A j \in 1..(i - 1) : calls[self][j].ok
                /\ Last(stages[self]) = StageOfCall(self, i)
                /\ pc[self] = "done"
                /\ result[self] = Raised("ServiceError")
                /\ frame[self].openai_cost = Absent

\* the judge call has failed after the three calls before it answered
C2_Witness ==
    \E self \in DOMAIN pc :
        /\ Len(calls[self]) = 4
        /\ ~calls[self][4].ok /\ calls[self][4].svc = "openai"
        /\ calls[self][3].ok /\ calls[self][3].svc = "openai"
        /\ result[self].kind = "raise"

FiveStages == <<"retrieve", "build_prompt", "generate", "evaluate", "cost">>
Services(self) == [i \in 1..Len(calls[self]) |-> calls[self][i].svc]

\* C3: an invocation that returns a report has entered the five stages once
\* each, in order, and has called the services once per stage: the encoder and
\* the vector search for search type Vector, the keyword search otherwise, then
\* the generation service for the answer and for the verdict.
C3_FiveStagesOnce ==
    \A self \in DOMAIN pc :
        HasReport(self) =>
            /\ stages[self] = FiveStages
            /\ \A i \in 1..Len(calls[self]) : calls[self][i].ok
            /\ IF args[self].search_type = Vector
               THEN /\ Services(self) = <<"encoder", "search", "openai", "openai">>
                    /\ "knn" \in DOMAIN calls[self][2].req.body
               ELSE /\ Services(self) = <<"search", "openai", "openai">>
                    /\ "query" \in DOMAIN calls[self][1].req.body

\* a report returned after a vector search
C3_Witness ==
    \E self \in DOMAIN pc :
        /\ HasReport(self)
        /\ args[self].search_type = Vector
        /\ Len(calls[self]) = 4

FourVerdicts ==
    {PyStr("RELEVANT"), PyStr("PARTLY_RELEVANT"), PyStr("NON_RELEVANT"), Unknown}

\* C4 as stated: the relevance of a report is one of the four verdicts.
C4_AsStated ==
    \A self \in DOMAIN pc : HasReport(self) => Report(self).relevance \in FourVerdicts

\* C4 amended: the relevance of a report is UNKNOWN when the judge's text is
\* not valid JSON, and otherwise the value of the `Relevance` key of the judge's
\* JSON object, unchanged; it is one of the four verdicts only when the judge
\* wrote one of them.
C4_RelevanceVerbatim ==
    \A self \in DOMAIN pc :
        HasReport(self) =>
            LET j == json_loads(JudgeText(self))
            IN  IF ~j.ok THEN Report(self).relevance = Unknown
                ELSE /\ j.value.t = "dict"
                     /\ "Relevance" \in DOMAIN j.value.members
                     /\ Report(self).relevance = j.value.members["Relevance"]

\* a report whose relevance is none of the four verdicts
C4_Witness ==
    \E self \in DOMAIN pc :
        /\ HasReport(self)
        /\ Report(self).relevance = PyStr("SOMEWHAT")

\* C6: the two token triples of a report are the usage the generation service
\* reported for the answer call and for the judge call, field by field, also
\* when the judge's text failed to parse; so total = prompt + completion in
\* the report whenever the service reported it so.
C6_TokensVerbatim ==
    \A self \in DOMAIN pc :
        HasReport(self) =>
            LET gen == OpenaiCalls(self)[1].resp[1].usage
                judge == OpenaiCalls(self)[2].resp[1].usage
                r == Report(self)
            IN  /\ r.prompt_tokens = gen.prompt_tokens
                /\ r.completion_tokens = gen.completion_tokens
                /\ r.total_tokens = gen.total_tokens
                /\ r.eval_prompt_tokens = judge.prompt_tokens
                /\ r.eval_completion_tokens = judge.completion_tokens
                /\ r.eval_total_tokens = judge.total_tokens
                /\ gen.total_tokens = gen.prompt_tokens + gen.completion_tokens
                      => r.total_tokens = r.prompt_tokens + r.completion_tokens
                /\ judge.total_tokens = judge.prompt_tokens + judge.completion_tokens
                      => r.eval_total_tokens = r.eval_prompt_tokens + r.eval_completion_tokens

\* a report after a judge text that failed to parse, with totals that do not add up
C6_Witness ==
    \E self \in DOMAIN pc :
        /\ HasReport(self)
        /\ Report(self).relevance = Unknown
        /\ ~json_loads(JudgeText(self)).ok
        /\ Report(self).eval_prompt_tokens > 0
        /\ Report(self).total_tokens # Report(self).prompt_tokens + Report(self).completion_tokens

AfterLastSlash(s) ==
    LET cut == {0} \cup {i \in 1..Len(s) : s[i] = "/"}
        k == CHOOSE i \in cut : \A j \in cut : j <= i
    IN  SubSeq(s, k + 1, Len(s))
Gpt4oMini == AfterLastSlash(OpenaiGpt4oMini)

\* C7: an invocation that returns has sent two requests to the generation
\* service: the first names the part of the caller's identifier after its
\* last '/' (the whole identifier when it has none), the second names
\* gpt-4o-mini whatever the caller chose; the identifier itself goes to the
\* report's model_used and to the cost lookup.
C7_RequestModels ==
    \A self \in DOMAIN pc :
        HasReport(self) =>
            /\ Len(OpenaiCalls(self)) = 2
            /\ OpenaiCalls(self)[1].req.model = AfterLastSlash(args[self].model_choice)
            /\ OpenaiCalls(self)[2].req.model = Gpt4oMini
            /\ Len(Gpt4oMini) = 11
            /\ Report(self).model_used = args[self].model_choice
            /\ Report(self).openai_cost =
                  calculate_openai_cost(args[self].model_choice,
                                        OpenaiCalls(self)[1].resp[1].usage)

\* a report for a provider-qualified identifier other than the judge's
C7_Witness ==
    \E self \in DOMAIN pc :
        /\ HasReport(self)
        /\ args[self].model_choice = OpenaiGpt35Turbo
        /\ OpenaiCalls(self)[1].req.model # OpenaiCalls(self)[2].req.model

(***************************************************************************)
(* Claims about concurrent invocations (SpecConc).                         *)
(***************************************************************************)
\* the report get_answer(a) returns when it runs alone and the services
\* answer it as they answered in cs
SoloReport(a, cs) ==
    LET openai == SelectSeq(cs, LAMBDA c : c.svc = "openai")
        gen == llm_return(openai[1].resp[1], openai[1].elapsed)
        judge == llm_return(openai[2].resp[1], openai[2].elapsed)
        ev == evaluate_relevance_result(judge.answer, judge.tokens)
    IN  [answer |-> gen.answer,
         response_time |-> gen.response_time,
         relevance |-> ev.relevance,
         relevance_explanation |-> ev.explanation,
         model_used |-> a.model_choice,
         prompt_tokens |-> gen.tokens.prompt_tokens,
         completion_tokens |-> gen.tokens.completion_tokens,
         total_tokens |-> gen.tokens.total_tokens,
         eval_prompt_tokens |-> ev.tokens.prompt_tokens,
         eval_completion_tokens |-> ev.tokens.completion_tokens,
         eval_total_tokens |-> ev.tokens.total_tokens,
         openai_cost |-> calculate_openai_cost(a.model_choice, gen.tokens)]

\* the requests get_answer(a) sends when it runs alone and the services
\* answer it as they answered in cs
SoloRequests(a, cs) ==
    LET search == SelectSeq(cs, LAMBDA c : c.svc = "search")
        openai == SelectSeq(cs, LAMBDA c : c.svc = "openai")
    IN  /\ \A i \in 1..Len(cs) :
              /\ cs[i].svc = "encoder" => cs[i].req = [text |-> a.query]
              /\ cs[i].svc = "search" =>
                    cs[i].req = IF a.search_type = Vector
                                THEN SearchKnnRequest("full_vector", Embedding(a.query),
                                                      a.category, IndexName)
                                ELSE SearchTextRequest(a.query, a.category, IndexName)
        /\ Len(openai) >= 1 =>
              openai[1].req = llm_request(build_prompt(a.query, search[1].resp[1]),
                                          a.model_choice)
        /\ Len(openai) >= 2 =>
              openai[2].req = llm_request(
                  evaluate_relevance_prompt(a.query, openai[1].resp[1].content), JudgeModel)

\* what belongs to invocation p
Own(p) == <<args[p], pc[p], frame[p], calls[p], stages[p], result[p]>>

\* a step is a step of one invocation and leaves everything of the others as it was
OneInvocationSteps ==
    \E self \in DOMAIN pc :
        \A p \in DOMAIN pc \ {self} :
            <<args[p], pc[p], frame[p], calls[p], stages[p], result[p]>>' = Own(p)

\* C8: under every interleaving, a step of one invocation changes nothing of
\* another, each request an invocation sends is built from its own arguments
\* and the answers it received itself, and each report equals the report of
\* the same invocation run alone with the same answers.
C8_Independent ==
    /\ [](\A self \in DOMAIN pc :
              /\ SoloRequests(args[self], calls[self])
              /\ HasReport(self) => Report(self) = SoloReport(args[self], calls[self]))
    /\ [][OneInvocationSteps]_vars

\* one invocation has returned while the other, which received another answer
\* with other token counts, is still before its last stage
C8_Witness ==
    /\ DOMAIN pc = Invocations
    /\ HasReport(1)
    /\ pc[2] = "cost"
    /\ frame[2].answer # frame[1].answer
    /\ frame[2].tokens # frame[1].tokens
    /\ frame[2].relevance # frame[1].relevance

\* C10: two runs with the same model identifier and the same prompt and
\* completion token counts of the answer call report the same openai_cost,
\* whatever the judge call's token counts and verdict are.
C10_CostIgnoresJudge ==
    \A i \in DOMAIN pc : \A j \in DOMAIN pc :
        /\ HasReport(i) /\ HasReport(j)
        /\ args[i].model_choice = args[j].model_choice
        /\ Report(i).prompt_tokens = Report(j).prompt_tokens
        /\ Report(i).completion_tokens = Report(j).completion_tokens
        => Report(i).openai_cost = Report(j).openai_cost

\* two priced runs that agree on model and answer tokens and differ in the
\* judge's token counts and verdict
C10_Witness ==
    /\ DOMAIN pc = Invocations
    /\ HasReport(1) /\ HasReport(2)
    /\ args[1].model_choice = OpenaiGpt4o /\ args[2].model_choice = OpenaiGpt4o
    /\ Report(1).prompt_tokens = Report(2).prompt_tokens
    /\ Report(1).completion_tokens = Report(2).completion_tokens
    /\ Report(1).eval_prompt_tokens # Report(2).eval_prompt_tokens
    /\ Report(1).relevance # Report(2).relevance
    /\ Report(1).openai_cost # DZero

====
